---- MODULE Spec2Model ----
(***************************************************************************)
(* A model of src/js/WindowManager.js: the window registry (state), the    *)
(* window factory (createWindow / createCenteredWindow), the focus         *)
(* controller (activateWindow), the drag controller (startMove /           *)
(* handleMove / endMove), the lifecycle controller (closeWindow) and the   *)
(* event wiring (bindWindowEvents).                                        *)
(*                                                                         *)
(* DOM elements are numbered 1, 2, ... in the order document.createElement *)
(* made them; 0 stands for null.  Each handler of the program is one       *)
(* action; createWindow is two (the part before `await fetch` and the part *)
(* after it), because other handlers run while the fetch is in flight.     *)
(* The width and maxHeight styles are written once by createWindow and     *)
(* never read again; they are left out of the element's style.             *)
(***************************************************************************)
EXTENDS Integers, Sequences, FiniteSets, TLC

VARIABLES
  state,         \* the closure's `state` object (lines 7-12)
  el,            \* every element createWindow has made, by number
  body,          \* the elements attached to document.body
  docListeners,  \* event types with a drag listener on `document`
  pending,       \* createWindow calls suspended at `await fetch`, oldest first
  now,           \* the last value Date.now() returned
  made,          \* history: the elements createWindow has returned as new
  last,          \* history: the handler that ran last, its input and result
  hist           \* history: the handlers run since page load (bounded)

vars == <<state, el, body, docListeners, pending, now, made, last, hist>>

----------------------------------------------------------------------------
(* Bounds of the model *)

MaxWindows == 3   \* elements createWindow may make under SpecClose
MaxElems == 2     \* elements createWindow may make under the other specifications
MaxBumps == 7     \* how far maxZIndex may rise above its initial value
MaxDragBumps == 6 \* the same, under SpecDrag
MaxTime == 3      \* largest value of the clock
MaxCoord == 1     \* a drag keeps left/top within MaxCoord of the centred position
MaxHist == 5      \* how many handlers `hist` records

(* Program constants *)
InitialMaxZIndex == 100
DefaultWidth == 400
DefaultHeight == 300

----------------------------------------------------------------------------
(* Values *)

Null == 0

Num(n) == [type |-> "number", n |-> n, s |-> ""]
Str(s) == [type |-> "string", n |-> 0, s |-> s]

Px(n) == [unit |-> "px", n |-> n]
Auto == [unit |-> "auto", n |-> 0]

\* typeof v === 'number' ? `${v}px` : v
toCss(v) == IF v.type = "number" THEN Px(v.n) ELSE [unit |-> v.s, n |-> 0]

NoMove ==
  [windowElement |-> Null, startX |-> 0, startY |-> 0,
   windowStartX |-> 0, windowStartY |-> 0, isTouch |-> FALSE]

Viewport == [innerWidth |-> 1000, innerHeight |-> 800]

World == [state |-> state, el |-> el, body |-> body,
          docListeners |-> docListeners]

Elements(w) == {w.state.windows[i].element : i \in DOMAIN w.state.windows}

----------------------------------------------------------------------------
(* Pure parts of the handlers.  Each takes the world w (state, elements,   *)
(* document body, document listeners) and returns the world after it.      *)

\* generateWindowId: `win_${Date.now()}_${Math.random()...substr(2, 4)}`
generateWindowId(t, r) == <<"win", t, r>>

\* state.windows.findIndex(win => win.element === e), 0 for -1
findIndex(windows, e) ==
  IF \E i \in DOMAIN windows : windows[i].element = e
  THEN CHOOSE i \in DOMAIN windows :
         /\ windows[i].element = e
         /\ \A j \in DOMAIN windows : windows[j].element = e => i <= j
  ELSE 0

\* state.windows.find(win => win.appPath === appPath), 0 for undefined
findByPath(windows, appPath) ==
  IF \E i \in DOMAIN windows : windows[i].appPath = appPath
  THEN CHOOSE i \in DOMAIN windows :
         /\ windows[i].appPath = appPath
         /\ \A j \in DOMAIN windows : windows[j].appPath = appPath => i <= j
  ELSE 0

\* windows.splice(i, 1)
splice(windows, i) ==
  SubSeq(windows, 1, i - 1) \o SubSeq(windows, i + 1, Len(windows))

\* Mutant: an element that has no record is ignored.
raise_RegisteredOnly(w, e) ==
  IF e \in Elements(w)
  THEN [w EXCEPT !.state.activeWindow = e,
                 !.state.maxZIndex = w.state.maxZIndex + 1,
                 !.el[e].style.zIndex = w.state.maxZIndex + 1]
  ELSE w

\* Mutant: the element gets the next z-index but maxZIndex is not advanced.
raise_NoCount(w, e) ==
  [w EXCEPT !.state.activeWindow = e,
            !.el[e].style.zIndex = w.state.maxZIndex + 1]

\* activateWindow, lines 154-159: the element becomes the active window
\* and gets the next z-index.
raise(w, e) ==
  LET z == w.state.maxZIndex + 1
  IN [w EXCEPT !.state.activeWindow = e,
               !.state.maxZIndex = z,
               !.el[e].style.zIndex = z]

\* activateWindow, lines 163-175: the title bar of every window in
\* state.windows gets the class `inactive`, that of e loses it.
mark(w, e) ==
  LET dimmed == [x \in DOMAIN w.el |->
                   IF x \in Elements(w) /\ w.el[x].markup.titleBar
                   THEN [w.el[x] EXCEPT !.inactive = TRUE]
                   ELSE w.el[x]]
  IN [w EXCEPT !.el = IF dimmed[e].markup.titleBar
                      THEN [dimmed EXCEPT ![e].inactive = FALSE]
                      ELSE dimmed]

\* Mutant: the other windows are not marked inactive.
activateWindow_NoDim(w, e) ==
  [raise(w, e) EXCEPT !.el[e].inactive = FALSE]

\* Mutant: the z-index is not raised.
activateWindow_NoRaise(w, e) ==
  mark([w EXCEPT !.state.activeWindow = e], e)

activateWindow(w, e) == mark(raise(w, e), e)

\* Mutant: only the move listener is installed.
startMove_NoEndListener(w, e, ev, rect) ==
  LET a == activateWindow(w, e)
      touch == ev.type = "touchstart"
      move == [windowElement |-> e, startX |-> ev.clientX, startY |-> ev.clientY,
               windowStartX |-> rect.left, windowStartY |-> rect.top,
               isTouch |-> touch]
  IN [a EXCEPT !.state.currentMove = move,
               !.docListeners = @ \cup {IF touch THEN "touchmove" ELSE "mousemove"}]

startMove(w, e, ev, rect) ==
  LET a == activateWindow(w, e)
      touch == ev.type = "touchstart"
      move == [windowElement |-> e, startX |-> ev.clientX, startY |-> ev.clientY,
               windowStartX |-> rect.left, windowStartY |-> rect.top,
               isTouch |-> touch]
      types == IF touch THEN {"touchmove", "touchend"} ELSE {"mousemove", "mouseup"}
  IN [a EXCEPT !.state.currentMove = move,
               !.docListeners = @ \cup types]

\* Mutant: the window jumps to the pointer.
dragTo_Pointer(cm, x, y) == [left |-> Px(x), top |-> Px(y)]

\* The position handleMove writes for a pointer at (x, y).
dragTo(cm, x, y) ==
  [left |-> Px(cm.windowStartX + (x - cm.startX)),
   top |-> Px(cm.windowStartY + (y - cm.startY))]

\* A mouse event has no `touches` (reading its length throws); a touch event
\* has no clientX (the position becomes "NaNpx", which the style rejects).
handleMove(w, ev) ==
  LET cm == w.state.currentMove
      e == cm.windowElement
      to == dragTo(cm, ev.clientX, ev.clientY)
      moved == [w EXCEPT !.el[e].style.left = to.left, !.el[e].style.top = to.top]
  IN IF cm = NoMove THEN w
     ELSE IF cm.isTouch
          THEN IF ev.type # "touchmove" THEN w
               ELSE IF ev.touches = 0 THEN w ELSE moved
          ELSE IF ev.type # "mousemove" THEN w ELSE moved

endMove(w) ==
  LET cm == w.state.currentMove
      types == IF cm.isTouch THEN {"touchmove", "touchend"}
               ELSE {"mousemove", "mouseup"}
  IN IF cm = NoMove THEN w
     ELSE [w EXCEPT !.docListeners = @ \ types,
                    !.state.currentMove = NoMove]

\* Mutant: closing the active window leaves it the active window.
closeWindow_KeepFocus(w, e) ==
  LET index == findIndex(w.state.windows, e)
      rest == IF index # 0 THEN splice(w.state.windows, index)
              ELSE w.state.windows
  IN [w EXCEPT !.body = @ \ {e}, !.state.windows = rest]

\* Mutant: the remaining window focused is the first, not the last.
closeWindow_FocusFirst(w, e) ==
  LET index == findIndex(w.state.windows, e)
      rest == IF index # 0 THEN splice(w.state.windows, index)
              ELSE w.state.windows
      removed == [w EXCEPT !.body = @ \ {e}, !.state.windows = rest]
      cleared == [removed EXCEPT !.state.activeWindow = Null]
  IN IF w.state.activeWindow = e
     THEN IF Len(rest) > 0
          THEN activateWindow(cleared, rest[1].element)
          ELSE cleared
     ELSE removed

\* Mutant: `if (index !== -1)` is left out; splice(-1, 1) removes the last record.
closeWindow_NoIndexCheck(w, e) ==
  LET index == findIndex(w.state.windows, e)
      rest == IF index # 0 THEN splice(w.state.windows, index)
              ELSE IF Len(w.state.windows) > 0
                   THEN splice(w.state.windows, Len(w.state.windows))
                   ELSE w.state.windows
      removed == [w EXCEPT !.body = @ \ {e}, !.state.windows = rest]
      cleared == [removed EXCEPT !.state.activeWindow = Null]
  IN IF w.state.activeWindow = e
     THEN IF Len(rest) > 0
          THEN activateWindow(cleared, rest[Len(rest)].element)
          ELSE cleared
     ELSE removed

closeWindow(w, e) ==
  LET index == findIndex(w.state.windows, e)
      rest == IF index # 0 THEN splice(w.state.windows, index)
              ELSE w.state.windows
      removed == [w EXCEPT !.body = @ \ {e}, !.state.windows = rest]
      cleared == [removed EXCEPT !.state.activeWindow = Null]
  IN IF w.state.activeWindow = e
     THEN IF Len(rest) > 0
          THEN activateWindow(cleared, rest[Len(rest)].element)
          ELSE cleared
     ELSE removed

\* The listeners bindWindowEvents adds to the regions of element e, and
\* whether it threw: line 335 reads windowStatusBar under `if (windowBody)`.
bindWindowEvents(w, e) ==
  LET m == w.el[e].markup
      title == {"titleBar.activate"}
      bodyH == IF m.windowBody THEN {"windowBody.activate"} ELSE {}
      statusH == IF m.windowBody THEN {"statusBar.activate"} ELSE {}
      closeH == IF m.closeButton THEN {"closeButton.close"} ELSE {}
  IN IF ~m.titleBar THEN [w |-> w, threw |-> FALSE]
     ELSE IF m.windowBody /\ ~m.statusBar
          THEN [w |-> [w EXCEPT !.el[e].handlers = title \cup bodyH],
                threw |-> TRUE]
          ELSE [w |-> [w EXCEPT !.el[e].handlers =
                          title \cup bodyH \cup statusH
                            \cup {"titleBar.startMove"} \cup closeH],
                threw |-> FALSE]

\* Mutant: the duplicate check is left out.
createWindowCall_NoDuplicateCheck(w, appPath, checkDuplicate) ==
  [w |-> w, ret |-> Null, fetch |-> TRUE]

\* createWindow up to `await fetch`: the duplicate check.
createWindowCall(w, appPath, checkDuplicate) ==
  LET i == findByPath(w.state.windows, appPath)
  IN IF checkDuplicate /\ i # 0
     THEN [w |-> activateWindow(w, w.state.windows[i].element),
           ret |-> w.state.windows[i].element, fetch |-> FALSE]
     ELSE [w |-> w, ret |-> Null, fetch |-> TRUE]

\* createWindow from createElement on (lines 68-101), with the catch.
createWindowBuild(w, call, response, windowId) ==
  LET e == Len(w.el) + 1
      element == [windowId |-> windowId,
                  style |-> [top |-> toCss(call.geom.top),
                             left |-> toCss(call.geom.left),
                             bottom |-> toCss(call.geom.bottom),
                             right |-> toCss(call.geom.right),
                             zIndex |-> w.state.maxZIndex + 1],
                  markup |-> response.markup,
                  inactive |-> FALSE,
                  handlers |-> {}]
      windowData == [id |-> windowId, element |-> e, appPath |-> call.appPath]
      added == [w EXCEPT !.el = Append(@, element),
                         !.state.maxZIndex = @ + 1,
                         !.body = @ \cup {e},
                         !.state.windows = Append(@, windowData)]
      bound == bindWindowEvents(added, e)
  IN IF bound.threw THEN [w |-> bound.w, ret |-> Null]
     ELSE [w |-> activateWindow(bound.w, e), ret |-> e]

\* Mutant: `if (!response.ok) throw` is left out.
createWindowResume_NoOkCheck(w, call, response, windowId) ==
  createWindowBuild(w, call, response, windowId)

\* createWindow after `await fetch`: response is what the fetch produced
\* (a rejected fetch and a response that is not ok both end in the catch).
createWindowResume(w, call, response, windowId) ==
  IF response.status # "ok" THEN [w |-> w, ret |-> Null]
  ELSE createWindowBuild(w, call, response, windowId)

\* createCenteredWindow's geometry
centered(width, height) ==
  [top |-> Num((Viewport.innerHeight - height) \div 2),
   left |-> Num((Viewport.innerWidth - width) \div 2),
   bottom |-> Str("auto"), right |-> Str("auto")]

\* getBoundingClientRect of an attached element: where a pixel left/top is
\* set the box sits there, otherwise layout decides (any of `auto`).
Rects(w, e, auto) ==
  LET s == w.el[e].style
  IN {[left |-> x, top |-> y] :
        x \in (IF s.left.unit = "px" THEN {s.left.n} ELSE {a.left : a \in auto}),
        y \in (IF s.top.unit = "px" THEN {s.top.n} ELSE {a.top : a \in auto})}

----------------------------------------------------------------------------
(* The state after the module has loaded (lines 7-12). *)

Init ==
  /\ state = [windows |-> <<>>, maxZIndex |-> InitialMaxZIndex,
              activeWindow |-> Null, currentMove |-> NoMove]
  /\ el = <<>>
  /\ body = {}
  /\ docListeners = {}
  /\ pending = <<>>
  /\ now = 0
  /\ made = {}
  /\ last = [op |-> "load", el |-> Null, ret |-> Null, registered |-> FALSE]
  /\ hist = <<>>

----------------------------------------------------------------------------
(* History and bounds *)

Overflow == <<[op |-> "other", el |-> Null]>>

Tracked == {"activateWindow", "createWindow:done", "createWindow:fetch"}

\* op ran on element e (or on none) and returned ret (or nothing);
\* registered: e had a record in state.windows when op began.
Note(op, e, ret) ==
  /\ last' = [op |-> op, el |-> e, ret |-> ret,
              registered |-> e \in Elements(World)]
  /\ hist' = IF op \in Tracked /\ hist # Overflow /\ Len(hist) < MaxHist
             THEN Append(hist, [op |-> op, el |-> IF e # Null THEN e ELSE ret])
             ELSE Overflow

Apply(w) ==
  /\ state' = w.state
  /\ el' = w.el
  /\ body' = w.body
  /\ docListeners' = w.docListeners

Origin == [left |-> centered(DefaultWidth, DefaultHeight).left.n,
           top |-> centered(DefaultWidth, DefaultHeight).top.n]

Near(a, b) == a - b <= MaxCoord /\ b - a <= MaxCoord

\* The bounds of the model: the stacking counter (lim.bumps above its
\* initial value) and the window positions.
Bounded(w, lim) ==
  /\ w.state.maxZIndex <= InitialMaxZIndex + lim.bumps
  /\ \A e \in DOMAIN w.el :
       /\ w.el[e].style.left.unit = "px" => Near(w.el[e].style.left.n, Origin.left)
       /\ w.el[e].style.top.unit = "px" => Near(w.el[e].style.top.n, Origin.top)

----------------------------------------------------------------------------
(* The public operations *)

\* createWindow(appPath, ..., checkDuplicate), up to `await fetch(appPath)`;
\* lim.elems bounds the elements the model makes.
CreateWindow(appPath, geom, checkDuplicate, lim) ==
  LET r == createWindowCall(World, appPath, checkDuplicate)
      call == [appPath |-> appPath, geom |-> geom]
  IN /\ Bounded(r.w, lim)
     /\ r.fetch => Len(el) + Len(pending) < lim.elems
     /\ Apply(r.w)
     /\ pending' = IF r.fetch THEN Append(pending, call) ELSE pending
     /\ Note(IF r.fetch THEN "createWindow:fetch" ELSE "createWindow:duplicate",
             Null, r.ret)
     /\ UNCHANGED <<now, made>>

\* createCenteredWindow(appPath, width, height, checkDuplicate)
CreateCenteredWindow(appPath, width, height, checkDuplicate, lim) ==
  CreateWindow(appPath, centered(width, height), checkDuplicate, lim)

\* The fetch of the i-th suspended createWindow settles and the call runs to
\* its end; t is what Date.now() returns and rand what Math.random() yields.
FetchComplete(i, response, t, rand, lim) ==
  LET call == pending[i]
      r == createWindowResume(World, call, response, generateWindowId(t, rand))
  IN /\ i \in DOMAIN pending
     /\ t >= now /\ t <= MaxTime
     /\ Bounded(r.w, lim)
     /\ Apply(r.w)
     /\ pending' = splice(pending, i)
     /\ now' = IF response.status = "ok" THEN t ELSE now
     /\ made' = IF r.ret # Null THEN made \cup {r.ret} ELSE made
     /\ Note(IF response.status = "ok" THEN "createWindow:done"
             ELSE "createWindow:fetchFailed", Null, r.ret)

\* activateWindow(element) called by the page
ActivateWindow(e, lim) ==
  LET w == activateWindow(World, e)
  IN /\ e \in DOMAIN el
     /\ Bounded(w, lim)
     /\ Apply(w)
     /\ Note("activateWindow", e, Null)
     /\ UNCHANGED <<pending, now, made>>

\* closeWindow(element) called by the page
CloseWindow(e, lim) ==
  LET w == closeWindow(World, e)
  IN /\ e \in DOMAIN el
     /\ Bounded(w, lim)
     /\ Apply(w)
     /\ Note("closeWindow", e, Null)
     /\ UNCHANGED <<pending, now, made>>

----------------------------------------------------------------------------
(* The listeners bindWindowEvents and startMove installed *)

\* mousedown / touchstart on the title bar: the activate listener, then the
\* startMove listener; both skip a press that lands on the close button.
TitleBarPress(e, ev, rect, lim) ==
  LET skip == el[e].markup.closeButton /\ ev.onClose
      w1 == IF "titleBar.activate" \in el[e].handlers /\ ~skip
            THEN activateWindow(World, e) ELSE World
      w2 == IF "titleBar.startMove" \in el[e].handlers /\ ~skip
            THEN startMove(w1, e, ev, rect) ELSE w1
  IN /\ e \in body
     /\ "titleBar.activate" \in el[e].handlers
     /\ ev.onClose => el[e].markup.closeButton
     /\ Bounded(w2, lim)
     /\ Apply(w2)
     /\ Note("titleBar.press", e, Null)
     /\ UNCHANGED <<pending, now, made>>

\* mousedown / touchstart on the window body or on the status bar
RegionPress(e, region, lim) ==
  LET w == activateWindow(World, e)
  IN /\ e \in body
     /\ region \in el[e].handlers
     /\ Bounded(w, lim)
     /\ Apply(w)
     /\ Note("region.press", e, Null)
     /\ UNCHANGED <<pending, now, made>>

\* click on the close button
CloseClick(e, lim) ==
  LET w == closeWindow(World, e)
  IN /\ e \in body
     /\ "closeButton.close" \in el[e].handlers
     /\ Bounded(w, lim)
     /\ Apply(w)
     /\ Note("closeButton.click", e, Null)
     /\ UNCHANGED <<pending, now, made>>

\* touchend on the close button: the close handler, then the event bubbles
\* to the document, where a touch drag's endMove listener may wait.
CloseTouchEnd(e, lim) ==
  LET w1 == closeWindow(World, e)
      w2 == IF "touchend" \in w1.docListeners THEN endMove(w1) ELSE w1
  IN /\ e \in body
     /\ "closeButton.close" \in el[e].handlers
     /\ Bounded(w2, lim)
     /\ Apply(w2)
     /\ Note("closeButton.touchend", e, Null)
     /\ UNCHANGED <<pending, now, made>>

\* mousemove / touchmove reaches the document's handleMove listener
DocMove(ev, lim) ==
  LET w == handleMove(World, ev)
  IN /\ ev.type \in docListeners
     /\ Bounded(w, lim)
     /\ Apply(w)
     /\ Note("handleMove", state.currentMove.windowElement, Null)
     /\ UNCHANGED <<pending, now, made>>

\* mouseup / touchend reaches the document's endMove listener
DocEnd(type) ==
  LET w == endMove(World)
  IN /\ type \in docListeners
     /\ Apply(w)
     /\ Note("endMove", state.currentMove.windowElement, Null)
     /\ UNCHANGED <<pending, now, made>>

----------------------------------------------------------------------------
(* Inputs *)

Paths == {"/apps/about.html", "/apps/notes.html"}

AllMarkups == [titleBar : BOOLEAN, closeButton : BOOLEAN,
               windowBody : BOOLEAN, statusBar : BOOLEAN]

FullMarkup == [titleBar |-> TRUE, closeButton |-> TRUE,
               windowBody |-> TRUE, statusBar |-> TRUE]
NoTitleBar == [FullMarkup EXCEPT !.titleBar = FALSE]
NoStatusBar == [FullMarkup EXCEPT !.statusBar = FALSE]

DefaultGeom == [top |-> Str("auto"), left |-> Str("auto"),
                bottom |-> Str("auto"), right |-> Str("auto")]
Anchored == [DefaultGeom EXCEPT !.bottom = Num(0), !.right = Num(0)]

Responses(markups) ==
  [status : {"ok"}, markup : markups]
    \cup [status : {"http_error", "network_error"}, markup : {FullMarkup}]

Here == [x |-> Origin.left, y |-> Origin.top]
There == [x |-> Origin.left + 1, y |-> Origin.top + 1]

PressEvents(types, points) ==
  {[type |-> ty, clientX |-> p.x, clientY |-> p.y, touches |-> 1, onClose |-> c] :
     ty \in types, p \in points, c \in BOOLEAN}

MoveEvents(types, points) ==
  {[type |-> ty, clientX |-> p.x, clientY |-> p.y, touches |-> n,
    onClose |-> FALSE] :
     ty \in types, p \in points, n \in {0, 1}}
  \ {[type |-> "mousemove", clientX |-> p.x, clientY |-> p.y, touches |-> 1,
      onClose |-> FALSE] : p \in points}

\* where layout puts a window whose left/top is `auto`
AutoRects == {Origin}

Regions == {"statusBar.activate", "windowBody.activate"}

EndTypes(starts) ==
  (IF "mousedown" \in starts THEN {"mouseup"} ELSE {})
    \cup (IF "touchstart" \in starts THEN {"touchend"} ELSE {})
MoveTypes(starts) ==
  (IF "mousedown" \in starts THEN {"mousemove"} ELSE {})
    \cup (IF "touchstart" \in starts THEN {"touchmove"} ELSE {})

----------------------------------------------------------------------------
(* Specifications.  Every handler is an action of each; they differ in the *)
(* inputs the handlers are given (I) and in the number of elements.        *)

NextOf(I) ==
  \/ \E p \in I.paths, g \in I.geoms, c \in I.checks : CreateWindow(p, g, c, I.lim)
  \/ \E p \in I.paths, c \in I.checks :
       CreateCenteredWindow(p, DefaultWidth, DefaultHeight, c, I.lim)
  \/ \E i \in DOMAIN pending, r \in Responses(I.markups),
        t \in {now + d : d \in I.ticks}, x \in I.rands :
       FetchComplete(i, r, t, x, I.lim)
  \/ \E e \in DOMAIN el : ActivateWindow(e, I.lim)
  \/ \E e \in DOMAIN el : CloseWindow(e, I.lim)
  \/ \E e \in DOMAIN el, ev \in PressEvents(I.starts, I.points) :
       \E rect \in Rects(World, e, AutoRects) : TitleBarPress(e, ev, rect, I.lim)
  \/ \E e \in DOMAIN el, r \in Regions : RegionPress(e, r, I.lim)
  \/ \E e \in DOMAIN el : CloseClick(e, I.lim)
  \/ \E e \in DOMAIN el : CloseTouchEnd(e, I.lim)
  \/ \E ev \in MoveEvents(MoveTypes(I.starts), I.points) : DocMove(ev, I.lim)
  \/ \E ty \in EndTypes(I.starts) : DocEnd(ty)

\* The registry: markup with and without a title bar, both paths, one
\* pointer position.
RegistryInputs ==
  [paths |-> Paths, geoms |-> {centered(DefaultWidth, DefaultHeight)},
   markups |-> {FullMarkup, NoTitleBar},
   checks |-> BOOLEAN, ticks |-> {1}, rands |-> {"k3f9"},
   starts |-> {"mousedown"}, points |-> {Here},
   lim |-> [elems |-> MaxElems, bumps |-> MaxBumps]]

Next == NextOf(RegistryInputs)

Spec == Init /\ [][Next]_vars

\* Closing: three windows, so that the last remaining record differs from
\* the first.
CloseInputs ==
  [paths |-> {"/apps/notes.html"},
   geoms |-> {centered(DefaultWidth, DefaultHeight)},
   markups |-> {FullMarkup, NoTitleBar},
   checks |-> BOOLEAN, ticks |-> {1}, rands |-> {"k3f9"},
   starts |-> {"mousedown"}, points |-> {Here},
   lim |-> [elems |-> MaxWindows, bumps |-> MaxBumps]]

NextClose == NextOf(CloseInputs)

SpecClose == Init /\ [][NextClose]_vars

\* Window ids: the clock may or may not advance between two creations, and
\* Math.random may or may not repeat.
IdInputs ==
  [paths |-> {"/apps/notes.html"},
   geoms |-> {centered(DefaultWidth, DefaultHeight)},
   markups |-> {FullMarkup},
   checks |-> BOOLEAN, ticks |-> {0, 1}, rands |-> {"k3f9", "z81q"},
   starts |-> {"mousedown"}, points |-> {Here},
   lim |-> [elems |-> MaxElems, bumps |-> MaxBumps]]

NextIds == NextOf(IdInputs)

SpecIds == Init /\ [][NextIds]_vars

\* Duplicates: every createWindow call is made with checkDuplicate = true.
DuplicateInputs ==
  [paths |-> Paths, geoms |-> {centered(DefaultWidth, DefaultHeight)},
   markups |-> {FullMarkup},
   checks |-> {TRUE}, ticks |-> {1}, rands |-> {"k3f9"},
   starts |-> {"mousedown"}, points |-> {Here},
   lim |-> [elems |-> MaxElems, bumps |-> MaxBumps]]

NextDuplicates == NextOf(DuplicateInputs)

SpecDuplicates == Init /\ [][NextDuplicates]_vars

\* Markup: every combination of the four regions.
MarkupInputs ==
  [paths |-> {"/apps/notes.html"},
   geoms |-> {centered(DefaultWidth, DefaultHeight)},
   markups |-> AllMarkups,
   checks |-> BOOLEAN, ticks |-> {1}, rands |-> {"k3f9"},
   starts |-> {"mousedown"}, points |-> {Here},
   lim |-> [elems |-> MaxElems, bumps |-> MaxBumps]]

NextMarkup == NextOf(MarkupInputs)

SpecMarkup == Init /\ [][NextMarkup]_vars

\* Dragging: mouse and touch, two pointer positions, windows anchored to the
\* bottom right corner and centred ones.
DragInputs ==
  [paths |-> {"/apps/notes.html"},
   geoms |-> {Anchored},
   markups |-> {FullMarkup},
   checks |-> BOOLEAN, ticks |-> {1}, rands |-> {"k3f9"},
   starts |-> {"mousedown", "touchstart"}, points |-> {Here, There},
   lim |-> [elems |-> MaxElems, bumps |-> MaxDragBumps]]

NextDrag == NextOf(DragInputs)

SpecDrag == Init /\ [][NextDrag]_vars

----------------------------------------------------------------------------
(* Claims *)

Windows == state.windows
Open == Elements(World)
CloseOps == {"closeButton.click", "closeButton.touchend", "closeWindow"}

\* C1: when the content fetch of createWindow fails (a response that is not
\* ok, or a network failure) the call returns null and changes nothing:
\* state.windows, maxZIndex and activeWindow are as they were and no element
\* was made or attached to the document.
C1_FetchFailureLeavesNothing ==
  [][last'.op = "createWindow:fetchFailed" =>
       /\ last'.ret = Null
       /\ state' = state
       /\ el' = el
       /\ body' = body
       /\ docListeners' = docListeners]_vars

\* C1 witness: a fetch has failed while windows were open.
C1_Witness ==
  /\ last.op = "createWindow:fetchFailed"
  /\ last.ret = Null
  /\ Len(Windows) >= 1

\* C2: createWindow with checkDuplicate = true and the appPath of an open
\* window adds no window, starts no fetch, and returns the element of an
\* open window with that path, which becomes the active window.
C2_DuplicateReturnsExisting ==
  [][\A p \in Paths, g \in RegistryInputs.geoms :
       (CreateWindow(p, g, TRUE, RegistryInputs.lim) /\ findByPath(Windows, p) # 0) =>
         /\ Len(state'.windows) = Len(Windows)
         /\ pending' = pending
         /\ \E i \in DOMAIN Windows :
              Windows[i].appPath = p /\ Windows[i].element = last'.ret
         /\ state'.activeWindow = last'.ret
         /\ el' [last'.ret].style.zIndex = state'.maxZIndex]_vars

\* C2 witness: a duplicate was found among several open windows and the
\* window returned is the active one.
C2_Witness ==
  /\ last.op = "createWindow:duplicate"
  /\ Len(Windows) >= 2
  /\ last.ret \in Open
  /\ state.activeWindow = last.ret

\* C3: after N successful creations and no close, state.windows has exactly
\* N records, no two records share an id, no element is in two records, and
\* maxZIndex is at least N.
C3_AsClaimed ==
  (\A e \in DOMAIN el : e \in body) =>
    /\ Len(Windows) = Cardinality(made)
    /\ \A i, j \in DOMAIN Windows :
         i # j => Windows[i].id # Windows[j].id /\ Windows[i].element # Windows[j].element
    /\ state.maxZIndex >= Cardinality(made)

\* An open window carries the inactive marker: its title bar has the class.
Marked(x) == el[x].markup.titleBar /\ el[x].inactive

\* C4 as claimed: after activateWindow(w) for an open window w, w is the one
\* open window that lacks the inactive marker, w is the active window, its
\* z-index is maxZIndex, and maxZIndex is one more than before.
C4_AsClaimed ==
  [][(last'.op = "activateWindow" /\ last'.el \in Open) =>
       /\ {x \in Open' : ~(el'[x].markup.titleBar /\ el'[x].inactive)} = {last'.el}
       /\ state'.activeWindow = last'.el
       /\ el'[last'.el].style.zIndex = state'.maxZIndex
       /\ state'.maxZIndex = state.maxZIndex + 1]_vars

\* C4 as amended: after activateWindow(w) for an open window w, every other
\* open window that has a title bar carries the inactive marker and w does
\* not carry it; w is the active window, its z-index is maxZIndex, and
\* maxZIndex is one more than before, also when w was the active window.
C4_ActivateFocuses ==
  [][(last'.op = "activateWindow" /\ last'.el \in Open) =>
       /\ \A x \in Open' :
            (x # last'.el /\ el'[x].markup.titleBar) => el'[x].inactive
       /\ ~(el'[last'.el].markup.titleBar /\ el'[last'.el].inactive)
       /\ state'.activeWindow = last'.el
       /\ el'[last'.el].style.zIndex = state'.maxZIndex
       /\ state'.maxZIndex = state.maxZIndex + 1]_vars

\* C4 witness: activateWindow ran on the window that its own creation had
\* just made active, with another window that has a title bar open.
C4_Witness ==
  /\ last.op = "activateWindow"
  /\ last.registered
  /\ Len(hist) >= 2
  /\ hist[Len(hist)] = [op |-> "activateWindow", el |-> last.el]
  /\ hist[Len(hist) - 1] = [op |-> "createWindow:done", el |-> last.el]
  /\ \E x \in Open : x # last.el /\ Marked(x)

\* C5: closeWindow on the active window leaves no active window when no
\* record remains, and otherwise makes the element of the last remaining
\* record the active window; closeWindow on any other element leaves the
\* active window as it was.
C5_CloseMovesFocus ==
  [][last'.op \in CloseOps =>
       IF state.activeWindow = last'.el
       THEN IF Len(state'.windows) = 0
            THEN state'.activeWindow = Null
            ELSE state'.activeWindow = state'.windows[Len(state'.windows)].element
       ELSE state'.activeWindow = state.activeWindow]_vars

\* C5 witness: the third of three windows was closed while active and the
\* second, not the first, is now active and on top.
C5_Witness ==
  /\ last.op \in CloseOps
  /\ last.registered
  /\ Len(el) = 3
  /\ Len(Windows) = 2
  /\ state.activeWindow = Windows[2].element
  /\ el[state.activeWindow].style.zIndex = state.maxZIndex
  /\ el[last.el].style.zIndex + 1 = state.maxZIndex

\* C6: closeWindow removes the record of its element and no other; on an
\* element that has no record (closed before, or never registered) it
\* leaves state.windows exactly as it was.
C6_CloseIsIdempotent ==
  [][last'.op \in CloseOps =>
       /\ state'.windows = SelectSeq(Windows, LAMBDA r : r.element # last'.el)
       /\ last'.el \notin Open => state'.windows = Windows
       /\ last'.el \notin body']_vars

\* C6 witness: an element without a record was closed while windows were open.
C6_Witness ==
  /\ last.op = "closeWindow"
  /\ ~last.registered
  /\ last.el \notin body
  /\ Len(Windows) >= 1

\* The move events a drag of the current modality listens for.
OwnMoves(cm) ==
  {ev \in MoveEvents(MoveTypes(DragInputs.starts), DragInputs.points) :
     /\ ev.type = (IF cm.isTouch THEN "touchmove" ELSE "mousemove")
     /\ cm.isTouch => ev.touches > 0}

\* C7: during a drag, handleMove with the pointer at (startX + dx,
\* startY + dy) sets left/top of the dragged window to (windowStartX + dx,
\* windowStartY + dy), from the values startMove captured, and changes no
\* z-index, nothing in state (maxZIndex, activeWindow, windows, the captured
\* values) and not the window's bottom/right.
C7_HandleMoveFollowsPointer ==
  [][\A ev \in OwnMoves(state.currentMove) :
       (state.currentMove # NoMove /\ DocMove(ev, DragInputs.lim)) =>
         LET cm == state.currentMove
             e == cm.windowElement
         IN /\ el'[e].style.left = Px(cm.windowStartX + (ev.clientX - cm.startX))
            /\ el'[e].style.top = Px(cm.windowStartY + (ev.clientY - cm.startY))
            /\ el'[e].style.bottom = el[e].style.bottom
            /\ el'[e].style.right = el[e].style.right
            /\ \A x \in DOMAIN el : el'[x].style.zIndex = el[x].style.zIndex
            /\ state' = state]_vars

\* C7 witness: a window anchored at bottom/right was grabbed away from its
\* corner and dragged left and up by one pixel.
C7_Witness ==
  /\ last.op = "handleMove"
  /\ state.currentMove # NoMove
  /\ LET cm == state.currentMove
         e == cm.windowElement
     IN /\ cm.startX # cm.windowStartX
        /\ el[e].style.left = Px(cm.windowStartX - 1)
        /\ el[e].style.top = Px(cm.windowStartY - 1)
        /\ el[e].style.bottom.unit = "px"

\* C8: whenever no drag is active, no drag listener is left on the document
\* (so handleMove runs only between startMove and endMove).
C8_AsClaimed == state.currentMove = NoMove => docListeners = {}

Fetched == [op |-> "createWindow:fetch", el |-> Null]
Created(e) == [op |-> "createWindow:done", el |-> e]
Activated(e) == [op |-> "activateWindow", el |-> e]

\* C9 as claimed: from maxZIndex = 100 and no windows, a successful
\* createWindow returns A with z-index 101; after a second window B is
\* created and activateWindow(A) is called, A has z-index 103 and B carries
\* the inactive marker.
C9_AsClaimed ==
  /\ hist = <<Fetched, Created(1)>> =>
       el[1].style.zIndex = InitialMaxZIndex + 1
  /\ hist = <<Fetched, Created(1), Fetched, Created(2), Activated(1)>> =>
       el[1].style.zIndex = InitialMaxZIndex + 3 /\ Marked(2)

\* C9 as amended: A is returned with z-index 102 (one from its creation, one
\* from its activation); after B is created and activateWindow(A) is
\* called, A has z-index 105 and B, if it has a title bar, carries the
\* inactive marker.
C9_Example ==
  /\ hist = <<Fetched, Created(1)>> =>
       el[1].style.zIndex = InitialMaxZIndex + 2
  /\ hist = <<Fetched, Created(1), Fetched, Created(2), Activated(1)>> =>
       /\ el[1].style.zIndex = InitialMaxZIndex + 5
       /\ el[2].markup.titleBar => Marked(2)

\* C9 witness: the example has run to its end, with a title bar in B.
C9_Witness ==
  /\ hist = <<Fetched, Created(1), Fetched, Created(2), Activated(1)>>
  /\ made = {1, 2}
  /\ el[2].markup.titleBar

\* C10: for every combination of title bar, close button, body and status
\* bar in the fetched markup, a createWindow whose fetch succeeded returns
\* the new element, which has a record and is the active window.
C10_AsClaimed ==
  last.op = "createWindow:done" =>
    /\ last.ret # Null
    /\ last.ret \in Open
    /\ state.activeWindow = last.ret

\* C11: over every sequence of create, activate, drag and close operations
\* maxZIndex never decreases, and in every reachable state the z-index of
\* every open window is at most maxZIndex.
C11_StackOrderBounded ==
  /\ [](\A e \in Open : el[e].style.zIndex <= state.maxZIndex)
  /\ [][state'.maxZIndex >= state.maxZIndex]_vars

\* C11 witness: windows were created, dragged and closed; none is open any
\* more and maxZIndex has kept the value it had risen to.
C11_Witness ==
  /\ last.op \in CloseOps
  /\ Windows = <<>>
  /\ Len(el) >= 2
  /\ state.currentMove # NoMove
  /\ state.maxZIndex >= InitialMaxZIndex + 2 * Len(el) + 2
  /\ \A e \in DOMAIN el : el[e].style.zIndex <= state.maxZIndex

\* The active window is none or the element of exactly one record of
\* state.windows, and none when state.windows is empty.
FocusInRegistry ==
  /\ \/ state.activeWindow = Null
     \/ Cardinality({i \in DOMAIN Windows :
                       Windows[i].element = state.activeWindow}) = 1
  /\ Windows = <<>> => state.activeWindow = Null

\* C12 as claimed: in every reachable state getActiveWindow() is none or the
\* element of exactly one record in state.windows, and none whenever no
\* window is open, whatever elements the operations are called on.
C12_AsClaimed == FocusInRegistry

\* C12 as amended: every operation other than activateWindow on an element
\* that has no record keeps the active window none or the element of exactly
\* one record, and none when no window is open; so this holds in every state
\* reached without activating an element that has no record.
C12_FocusStaysInRegistry ==
  [][(FocusInRegistry /\ ~(last'.op = "activateWindow" /\ ~last'.registered))
       => FocusInRegistry']_vars

\* C12 witness: the last of several windows was closed while it was active;
\* no record is left and there is no active window.
C12_Witness ==
  /\ last.op \in CloseOps
  /\ last.registered
  /\ Len(el) >= 2
  /\ Windows = <<>>
  /\ state.activeWindow = Null

\* C13: while a drag is active, a press on a title bar (mouse or touch, on
\* any window) does not replace or overwrite state.currentMove.
C13_AsClaimed ==
  [][(state.currentMove # NoMove /\ last'.op = "titleBar.press")
       => state'.currentMove = state.currentMove]_vars

\* The move and end events of the modality the drag cm was not started with.
OtherMoves(cm) ==
  {ev \in MoveEvents(MoveTypes(DragInputs.starts), DragInputs.points) :
     ev.type = (IF cm.isTouch THEN "mousemove" ELSE "touchmove")}
OtherEnd(cm) == IF cm.isTouch THEN "mouseup" ELSE "touchend"

\* C14: a drag is repositioned and ended only by events of the modality of
\* the press that started it; a move or end event of the other modality
\* neither repositions the dragged window nor clears state.currentMove.
C14_AsClaimed ==
  [][state.currentMove # NoMove =>
       /\ \A ev \in OtherMoves(state.currentMove) :
            DocMove(ev, DragInputs.lim) => el' = el /\ state' = state
       /\ DocEnd(OtherEnd(state.currentMove))
            => state'.currentMove = state.currentMove]_vars

\* The listeners a drag of cm's modality installs on the document.
OwnListeners(cm) ==
  IF cm.isTouch THEN {"touchmove", "touchend"} ELSE {"mousemove", "mouseup"}

\* C15: whenever a drag is active, the move listener and the end listener of
\* its recorded modality are on the document, and the end listener, when an
\* end event of that modality calls it, leaves no active drag.
C15_DragKeepsItsListeners ==
  state.currentMove # NoMove =>
    /\ OwnListeners(state.currentMove) \subseteq docListeners
    /\ endMove(World).state.currentMove = NoMove

\* C15 witness: a touch drag is active that overwrote a mouse drag; the
\* listeners of both modalities are on the document.
C15_Witness ==
  /\ last.op = "titleBar.press"
  /\ state.currentMove # NoMove
  /\ state.currentMove.isTouch
  /\ docListeners = {"mousemove", "mouseup", "touchmove", "touchend"}
  /\ state.maxZIndex >= InitialMaxZIndex + 6

\* C16: when several createWindow calls are in flight at once and their
\* fetches succeed, each completion appends one record and raises maxZIndex,
\* no creation is lost or applied twice, state.windows is in the order of
\* completion, and after the last completion the window completed last is
\* the active window with z-index maxZIndex.  Stated for two calls, with no
\* window closed in between.
C16_AsClaimed ==
  (/\ last.op = "createWindow:done"
   /\ Len(hist) = 4
   /\ hist[1] = Fetched /\ hist[2] = Fetched
   /\ hist[3].op = "createWindow:done" /\ hist[4].op = "createWindow:done"
   /\ body = DOMAIN el)
  => /\ Len(el) = 2
     /\ Len(Windows) = 2
     /\ Windows[1].element = 1 /\ Windows[2].element = 2
     /\ state.maxZIndex >= InitialMaxZIndex + 2
     /\ state.activeWindow = 2
     /\ el[2].style.zIndex = state.maxZIndex

\* C17 as claimed: activateWindow on an element that has no record leaves
\* state.windows as it was, raises maxZIndex by one and gives the element
\* that z-index, makes the element the active window, and leaves every open
\* window with the inactive marker.
C17_AsClaimed ==
  [][(last'.op = "activateWindow" /\ ~last'.registered) =>
       /\ state'.windows = Windows
       /\ state'.maxZIndex = state.maxZIndex + 1
       /\ el'[last'.el].style.zIndex = state'.maxZIndex
       /\ state'.activeWindow = last'.el
       /\ \A x \in Open' : el'[x].markup.titleBar /\ el'[x].inactive]_vars

\* C17 as amended: the same, with the inactive marker on every open window
\* that has a title bar.
C17_ActivateUnregistered ==
  [][(last'.op = "activateWindow" /\ ~last'.registered) =>
       /\ state'.windows = Windows
       /\ state'.maxZIndex = state.maxZIndex + 1
       /\ el'[last'.el].style.zIndex = state'.maxZIndex
       /\ state'.activeWindow = last'.el
       /\ \A x \in Open' : el'[x].markup.titleBar => el'[x].inactive]_vars

\* C17 witness: a closed window was activated while another window, which
\* has a title bar and had been the active one, was open.
C17_Witness ==
  /\ last.op = "activateWindow"
  /\ ~last.registered
  /\ last.el \notin body
  /\ state.activeWindow = last.el
  /\ el[last.el].style.zIndex = state.maxZIndex
  /\ \E x \in Open : Marked(x) /\ el[x].style.zIndex + 1 = state.maxZIndex

\* C18: when every createWindow call is made with checkDuplicate = true, no
\* two open windows have the same appPath, also when two calls for one path
\* are in flight together.
C18_AsClaimed ==
  \A i, j \in DOMAIN Windows :
    i # j => Windows[i].appPath # Windows[j].appPath

\* C19: whenever the active window is open, its z-index is greater than that
\* of every other open window, after creations with any markup, activations
\* and closes.
C19_AsClaimed ==
  state.activeWindow \in Open =>
    \A x \in Open \ {state.activeWindow} :
      el[state.activeWindow].style.zIndex > el[x].style.zIndex

\* C20: whenever a drag is active, the window it refers to has a record in
\* state.windows (closing the dragged window ends the drag).
C20_AsClaimed ==
  state.currentMove # NoMove => state.currentMove.windowElement \in Open

====
